---- MODULE Spec2Model ----
(***************************************************************************)
(* K-space Explorer (src/kspace.py): the slice transform engine            *)
(* (ImageManipulators) and the recompute handler (MainApp.image_change).   *)
(*                                                                         *)
(* Numbers.  Every k-space and pixel value is a fixed-point number with    *)
(* denominator Den.  A complex value is an element of Z[z], z = exp(i*pi/6)*)
(* (a primitive 12th root of unity, z^4 = z^2 - 1), written as the tuple   *)
(* <<a, b, c, d>> = (a + b*z + c*z^2 + d*z^3) / Den.  That ring holds the  *)
(* roots of unity of every transform length dividing 12, so the discrete   *)
(* Fourier transforms of the lengths 1, 2, 3, 4, 6 are computed exactly.   *)
(* float32/complex64 rounding is not modelled.                             *)
(*                                                                         *)
(* Arrays.  A 2D ndarray is [shape |-> <<rows, cols>>, flat |-> seq], flat *)
(* being the C-order (row-major) buffer, cell (i, j) at flat[i*cols+j+1].  *)
(***************************************************************************)
EXTENDS Integers, Sequences, FiniteSets, TLC

VARIABLES
    ui,             \* the QML controls image_change reads (their property values)
    heap,           \* the live ImageManipulators objects (slices), by object id
    im,             \* the global "im": the id of the slice on display
    img_instances,  \* MainApp.img_instances: channel -> object id (empty for an image)
    alive,          \* FALSE once a slot has raised (PyQt aborts the process)
    call,           \* the last slot run, or the last direct call of an engine function
    edits           \* how many slots have run since start-up

vars == <<ui, heap, im, img_instances, alive, call, edits>>

(***************************************************************************)
(* Fixed point and the ring Z[z]                                           *)
(***************************************************************************)
Den == 100 * 100 * 100

Max(a, b) == IF a >= b THEN a ELSE b
Min(a, b) == IF a <= b THEN a ELSE b

CZero == <<0, 0, 0, 0>>
CReal(x) == <<x, 0, 0, 0>>
CAdd(z, w) == <<z[1] + w[1], z[2] + w[2], z[3] + w[3], z[4] + w[4]>>
CScale(n, z) == <<n * z[1], n * z[2], n * z[3], n * z[4]>>
\* z * num / den for a value whose parts are multiples of den
CMulFrac(z, num, den) ==
    <<(z[1] \div den) * num, (z[2] \div den) * num,
      (z[3] \div den) * num, (z[4] \div den) * num>>
\* complex conjugate: conj(z) = z - z^3, conj(z^2) = 1 - z^2, conj(z^3) = -z^3
CConj(z) == <<z[1] + z[3], z[2], -z[3], -z[2] - z[4]>>
\* multiplication by the root of unity z
Rot(z) == <<-z[4], z[1], z[2] + z[4], z[3]>>

RECURSIVE RotK(_, _)
RotK(k, z) == IF k = 0 THEN z ELSE RotK(k - 1, Rot(z))

(***************************************************************************)
(* Exact products of 32-bit values: numbers in base 1000                   *)
(***************************************************************************)
Limbs(x) == <<x % 1000, (x \div 1000) % 1000, x \div 1000000>>

\* the coefficients of x * y (not yet carried)
BMul(x, y) ==
    LET a == Limbs(x)
        b == Limbs(y)
    IN  <<a[1] * b[1],
          a[1] * b[2] + a[2] * b[1],
          a[1] * b[3] + a[2] * b[2] + a[3] * b[1],
          a[2] * b[3] + a[3] * b[2],
          a[3] * b[3]>>

BAdd(p, q) == [n \in 1..5 |-> p[n] + q[n]]
BScale(k, p) == [n \in 1..5 |-> k * p[n]]

\* carried form of 7 coefficients: digits 1..6 in 0..999, digit 7 the (signed) rest
Carry7(c) ==
    LET t2 == c[2] + (c[1] \div 1000)
        t3 == c[3] + (t2 \div 1000)
        t4 == c[4] + (t3 \div 1000)
        t5 == c[5] + (t4 \div 1000)
        t6 == c[6] + (t5 \div 1000)
        t7 == c[7] + (t6 \div 1000)
    IN  <<c[1] % 1000, t2 % 1000, t3 % 1000, t4 % 1000, t5 % 1000, t6 % 1000, t7>>

BCanon(c) == Carry7(<<c[1], c[2], c[3], c[4], c[5], 0, 0>>)

BZero == <<0, 0, 0, 0, 0, 0, 0>>

\* p < q for carried numbers
BLess(p, q) ==
    \E n \in 1..7 : /\ p[n] < q[n]
                    /\ \A m \in (n + 1)..7 : p[m] = q[m]

\* the sign of x + y * sqrt(3)
SignSqrt3(x, y) ==
    LET xx == BCanon(BMul(x, x))
        yy == BCanon(BScale(3, BMul(y, y)))
    IN  IF x >= 0 /\ y >= 0 THEN (IF x = 0 /\ y = 0 THEN 0 ELSE 1)
        ELSE IF x <= 0 /\ y <= 0 THEN -1
        ELSE IF x > 0 THEN (IF BLess(yy, xx) THEN 1 ELSE -1)
        ELSE (IF BLess(xx, yy) THEN 1 ELSE -1)

\* twice the real and the imaginary part, as <<x, y>> = x + y * sqrt(3)
Re2(z) == <<2 * z[1] + z[3], z[2]>>
Im2(z) == <<z[2] + 2 * z[4], z[3]>>

\* numpy's order of complex numbers: by real part, then by imaginary part
CLess(z, w) ==
    LET r == SignSqrt3(Re2(w)[1] - Re2(z)[1], Re2(w)[2] - Re2(z)[2])
        i == SignSqrt3(Im2(w)[1] - Im2(z)[1], Im2(w)[2] - Im2(z)[2])
    IN  r = 1 \/ (r = 0 /\ i = 1)

\* |z|^2 * 4 = P + Q * sqrt(3), as the carried pair <<P, Q>>
Norm2(z) ==
    LET x == Re2(z)
        y == Im2(z)
    IN  <<BCanon(BAdd(BAdd(BMul(x[1], x[1]), BScale(3, BMul(x[2], x[2]))),
                      BAdd(BMul(y[1], y[1]), BScale(3, BMul(y[2], y[2]))))),
          BCanon(BScale(2, BAdd(BMul(x[1], x[2]), BMul(y[1], y[2]))))>>

(***************************************************************************)
(* ndarrays                                                                *)
(***************************************************************************)
Rows(a) == a.shape[1]
Cols(a) == a.shape[2]
Size(a) == Rows(a) * Cols(a)
RowOf(a, n) == (n - 1) \div Cols(a)
ColOf(a, n) == (n - 1) % Cols(a)
At(a, i, j) == a.flat[i * Cols(a) + j + 1]

MkArr(rows, cols, F(_, _)) ==
    [shape |-> <<rows, cols>>,
     flat  |-> [n \in 1..(rows * cols) |-> F((n - 1) \div cols, (n - 1) % cols)]]

\* np.zeros_like
zeros_like(a, zero) == [shape |-> a.shape, flat |-> [n \in 1..Size(a) |-> zero]]

\* a[sel] = 0 for the cells (i, j) with Sel(i, j)
ZeroWhere(a, Sel(_, _), zero) ==
    [a EXCEPT !.flat = [n \in 1..Size(a) |->
        IF Sel(RowOf(a, n), ColOf(a, n)) THEN zero ELSE a.flat[n]]]

\* first index of the slice a[s:] of an axis of length len (Python's rule)
SliceStart(len, s) == IF s < 0 THEN Max(len + s, 0) ELSE Min(s, len)

\* Python's round() of num / den (den > 0): to nearest, ties to even
Round(num, den) ==
    LET q == num \div den
        r == num % den
    IN  IF 2 * r > den THEN q + 1
        ELSE IF 2 * r < den THEN q
        ELSE IF q % 2 = 0 THEN q ELSE q + 1

\* ndarray.resize(size) in place: the buffer is kept, cut or zero-padded
resize(a, size, zero) ==
    [shape |-> size,
     flat  |-> [n \in 1..(size[1] * size[2]) |->
                  IF n <= Len(a.flat) THEN a.flat[n] ELSE zero]]

(***************************************************************************)
(* Filters (static methods of ImageManipulators).  Each takes the k-space  *)
(* it edits in place and yields the k-space after the call.                *)
(***************************************************************************)
\* reduced_scan_percentage gone wrong: no test of lines_to_delete, so that
\* kspace[-0:] = 0 clears every row
reduced_scan_percentage_unguarded(kspace, percentage) ==
    IF percentage < 100
    THEN LET lines_to_delete == Round((100 - percentage) * Rows(kspace), 200)
             stop == SliceStart(Rows(kspace), lines_to_delete)
             start == SliceStart(Rows(kspace), -lines_to_delete)
         IN  ZeroWhere(ZeroWhere(kspace, LAMBDA i, j : i < stop, CZero),
                       LAMBDA i, j : i >= start, CZero)
    ELSE kspace

reduced_scan_percentage(kspace, percentage) ==
    IF percentage < 100
    THEN LET lines_to_delete == Round((100 - percentage) * Rows(kspace), 200)
             stop == SliceStart(Rows(kspace), lines_to_delete)
             start == SliceStart(Rows(kspace), -lines_to_delete)
         IN  IF lines_to_delete # 0
             THEN ZeroWhere(ZeroWhere(kspace, LAMBDA i, j : i < stop, CZero),
                            LAMBDA i, j : i >= start, CZero)
             ELSE kspace
    ELSE kspace

\* mask = x * x + y * y <= r * r on the centred grid, r = hypot(shape) / 2 * radius / 100
InCircle(shape, radius, i, j) ==
    LET y == i - (shape[1] \div 2)
        x == j - (shape[2] \div 2)
    IN  40000 * (x * x + y * y) <= (shape[1] * shape[1] + shape[2] * shape[2]) * radius * radius

high_pass_filter(kspace, radius) ==
    IF radius > 0
    THEN ZeroWhere(kspace, LAMBDA i, j : InCircle(kspace.shape, radius, i, j), CZero)
    ELSE kspace

\* low_pass_filter gone wrong: the cells on the circle are cleared too
low_pass_filter_strict(kspace, radius) ==
    IF radius < 100
    THEN ZeroWhere(kspace,
                   LAMBDA i, j : LET y == i - (Rows(kspace) \div 2)
                                     x == j - (Cols(kspace) \div 2)
                                 IN  40000 * (x * x + y * y)
                                        >= (Rows(kspace) * Rows(kspace)
                                            + Cols(kspace) * Cols(kspace)) * radius * radius,
                   CZero)
    ELSE kspace

low_pass_filter(kspace, radius) ==
    IF radius < 100
    THEN ZeroWhere(kspace, LAMBDA i, j : ~InCircle(kspace.shape, radius, i, j), CZero)
    ELSE kspace

\* add_noise gone wrong: the cached map is added whatever the SNR
add_noise_any_snr(kspace, signal_to_noise, current_noise, generate_new_noise, randn) ==
    LET mean_is_zero == \A n \in 1..Size(kspace) : kspace.flat[n] = CZero
        noise == IF signal_to_noise < 30 /\ generate_new_noise
                 THEN (IF mean_is_zero THEN zeros_like(randn, 0) ELSE randn)
                 ELSE current_noise
    IN  [kspace |-> [kspace EXCEPT !.flat = [n \in 1..Size(kspace) |->
                       CAdd(kspace.flat[n], CReal(noise.flat[n]))]],
         noise  |-> noise]

\* add_noise gone wrong: a new map is drawn in every call below 30 dB
add_noise_always_new(kspace, signal_to_noise, current_noise, generate_new_noise, randn) ==
    IF signal_to_noise < 30
    THEN LET mean_is_zero == \A n \in 1..Size(kspace) : kspace.flat[n] = CZero
             noise == IF mean_is_zero THEN zeros_like(randn, 0) ELSE randn
         IN  [kspace |-> [kspace EXCEPT !.flat = [n \in 1..Size(kspace) |->
                            CAdd(kspace.flat[n], CReal(noise.flat[n]))]],
              noise  |-> noise]
    ELSE [kspace |-> kspace, noise |-> current_noise]

\* randn: the array std_noise * np.random.randn(shape) would be for a non-zero std_noise.
\* Yields the k-space and the noise map after the call.
add_noise(kspace, signal_to_noise, current_noise, generate_new_noise, randn) ==
    IF signal_to_noise < 30
    THEN LET mean_is_zero == \A n \in 1..Size(kspace) : kspace.flat[n] = CZero
             noise == IF generate_new_noise
                      THEN (IF mean_is_zero THEN zeros_like(randn, 0) ELSE randn)
                      ELSE current_noise
         IN  [kspace |-> [kspace EXCEPT !.flat = [n \in 1..Size(kspace) |->
                            CAdd(kspace.flat[n], CReal(noise.flat[n]))]],
              noise  |-> noise]
    ELSE [kspace |-> kspace, noise |-> current_noise]

\* kspace[::-1, ::-1]
Flip(a) == MkArr(Rows(a), Cols(a), LAMBDA i, j : At(a, Rows(a) - 1 - i, Cols(a) - 1 - j))
\* np.roll gone wrong: nothing is shifted
RollNone(a, s) == a

\* np.roll(a, s, axis=(0, 1))
Roll(a, s) == MkArr(Rows(a), Cols(a),
                    LAMBDA i, j : At(a, (i - s[1]) % Rows(a), (j - s[2]) % Cols(a)))

\* partial_fourier gone wrong: the replaced lines are not conjugated
partial_fourier_unconjugated(kspace, percentage, zf) ==
    IF percentage # 100
    THEN LET rows_to_skip == Round((100 - percentage) * (Rows(kspace) - 2), 200)
             start == SliceStart(Rows(kspace), -rows_to_skip)
             shift_hor == IF Cols(kspace) % 2 = 0 THEN 1 ELSE 0
             shift_ver == IF Rows(kspace) % 2 # 0 THEN 0 ELSE 1
             mirror == Roll(Flip(kspace), <<shift_ver, shift_hor>>)
         IN  IF rows_to_skip # 0 /\ zf
             THEN ZeroWhere(kspace, LAMBDA i, j : i >= start, CZero)
             ELSE IF rows_to_skip # 0
             THEN MkArr(Rows(kspace), Cols(kspace),
                        LAMBDA i, j : IF i >= start THEN At(mirror, i, j)
                                      ELSE At(kspace, i, j))
             ELSE kspace
    ELSE kspace

partial_fourier(kspace, percentage, zf) ==
    IF percentage # 100
    THEN LET rows_to_skip == Round((100 - percentage) * (Rows(kspace) - 2), 200)
             start == SliceStart(Rows(kspace), -rows_to_skip)
             shift_hor == IF Cols(kspace) % 2 = 0 THEN 1 ELSE 0
             shift_ver == IF Rows(kspace) % 2 # 0 THEN 0 ELSE 1
             mirror == Roll(Flip(kspace), <<shift_ver, shift_hor>>)
         IN  IF rows_to_skip # 0 /\ zf
             THEN ZeroWhere(kspace, LAMBDA i, j : i >= start, CZero)
             ELSE IF rows_to_skip # 0
             THEN MkArr(Rows(kspace), Cols(kspace),
                        LAMBDA i, j : IF i >= start THEN CConj(At(mirror, i, j))
                                      ELSE At(kspace, i, j))
             ELSE kspace
    ELSE kspace

\* 2 * cos(2 * pi * n / m) for m in {1, 2, 3, 4, 6}
Cos2(n, m) ==
    LET t == ((12 \div m) * n) % 12
    IN  CASE t = 0 -> 2
          [] t \in {2, 10} -> 1
          [] t \in {3, 9} -> 0
          [] t \in {4, 8} -> -1
          [] t = 6 -> -2

\* np.hamming(M)[n] * 100 = 54 - 46 * cos(2 * pi * n / (M - 1)); np.hamming(1) = [1.]
HammingPct(M, n) == IF M = 1 THEN 100 ELSE 54 - 23 * Cos2(n, M - 1)

hamming(kspace) ==
    MkArr(Rows(kspace), Cols(kspace),
          LAMBDA i, j : CMulFrac(At(kspace, i, j),
                                 HammingPct(Rows(kspace), i) * HammingPct(Cols(kspace), j),
                                 10000))

decrease_dc(kspace, percentage) ==
    LET x == Rows(kspace) \div 2
        y == Cols(kspace) \div 2
    IN  [kspace EXCEPT !.flat[x * Cols(kspace) + y + 1] = CMulFrac(@, 100 - percentage, 100)]

\* kspace.max(): the greatest cell in numpy's order of complex numbers
RECURSIVE MaxFrom(_, _, _)
MaxFrom(flat, n, best) ==
    IF n > Len(flat) THEN best
    ELSE MaxFrom(flat, n + 1, IF CLess(best, flat[n]) THEN flat[n] ELSE best)
CMaxOf(kspace) == MaxFrom(kspace.flat, 2, kspace.flat[1])

apply_spikes(kspace, spikes) ==
    LET spike_intensity == CScale(2, CMaxOf(kspace))
    IN  ZeroWhere(kspace, LAMBDA i, j : \E n \in 1..Len(spikes) : spikes[n] = <<i, j>>,
                  spike_intensity)

\* the slice max(x - size, 0):x + size + 1 of each axis: its stop is placed as a start
\* is, a negative one counting from the end of the axis
apply_patches(kspace, patches) ==
    ZeroWhere(kspace,
              LAMBDA i, j : \E n \in 1..Len(patches) :
                  LET x == patches[n][1]
                      y == patches[n][2]
                      size == patches[n][3]
                  IN  /\ SliceStart(Rows(kspace), Max(x - size, 0)) <= i
                      /\ i < SliceStart(Rows(kspace), x + size + 1)
                      /\ SliceStart(Cols(kspace), Max(y - size, 0)) <= j
                      /\ j < SliceStart(Cols(kspace), y + size + 1),
              CZero)

\* a.flat[start::] = 0
ZeroTail(a, start) ==
    [a EXCEPT !.flat = [n \in 1..Size(a) |-> IF n - 1 >= start THEN CZero ELSE a.flat[n]]]

\* filling_linear gone wrong: the first index cleared is rounded up
filling_linear_ceil(kspace, value) == ZeroTail(kspace, (Size(kspace) * value + 99) \div 100)

filling_linear(kspace, value) == ZeroTail(kspace, (Size(kspace) * value) \div 100)

\* filling_centric gone wrong: the rows are left in the order of acquisition
filling_centric_unordered(kspace, value) ==
    LET h == Rows(kspace) \div 2
        reordered == MkArr(Rows(kspace), Cols(kspace),
                           LAMBDA i, j : IF i % 2 = 0 THEN At(kspace, h + (i \div 2), j)
                                         ELSE At(kspace, h - 1 - ((i - 1) \div 2), j))
    IN  [ok |-> h # 0, kspace |-> ZeroTail(reordered, (Size(kspace) * value) \div 100)]

\* Yields [ok, kspace]: with one row the write-back kspace[rows // 2 - 1::-1] = ksp_centric[1::2]
\* assigns no row to one row and raises ValueError before anything is written.
filling_centric(kspace, value) ==
    LET h == Rows(kspace) \div 2
        reordered == MkArr(Rows(kspace), Cols(kspace),
                           LAMBDA i, j : IF i % 2 = 0 THEN At(kspace, h + (i \div 2), j)
                                         ELSE At(kspace, h - 1 - ((i - 1) \div 2), j))
        ksp_centric == ZeroTail(reordered, (Size(kspace) * value) \div 100)
    IN  IF h = 0 THEN [ok |-> FALSE, kspace |-> kspace]
        ELSE [ok |-> TRUE,
              kspace |-> MkArr(Rows(kspace), Cols(kspace),
                               LAMBDA i, j : IF i >= h THEN At(ksp_centric, 2 * (i - h), j)
                                             ELSE At(ksp_centric, 2 * (h - 1 - i) + 1, j))]

filling_ss_epi_blipped(kspace, value) ==
    LET zigzag(a) == MkArr(Rows(a), Cols(a),
                           LAMBDA i, j : IF i % 2 = 0 THEN At(a, i, j)
                                         ELSE At(a, i, Cols(a) - 1 - j))
        ksp_epi == ZeroTail(zigzag(kspace), (Size(kspace) * value) \div 100)
    IN  zigzag(ksp_epi)

filling(kspace, value, mode) ==
    CASE mode = 0 -> [ok |-> TRUE, kspace |-> filling_linear(kspace, value)]
      [] mode = 1 -> filling_centric(kspace, value)
      [] mode = 2 -> [ok |-> TRUE, kspace |-> filling_ss_epi_blipped(kspace, value)]
      [] OTHER -> [ok |-> TRUE, kspace |-> kspace]

(***************************************************************************)
(* Transforms                                                              *)
(***************************************************************************)
\* np.fft.fftshift / np.fft.ifftshift: roll both axes by n // 2 / by -(n // 2)
fftshift(a) == MkArr(Rows(a), Cols(a),
                     LAMBDA i, j : At(a, (i - (Rows(a) \div 2)) % Rows(a),
                                         (j - (Cols(a) \div 2)) % Cols(a)))
\* ifftshift gone wrong: the roll of fftshift, by n // 2
ifftshift_forward(a) == MkArr(Rows(a), Cols(a),
                              LAMBDA i, j : At(a, (i - (Rows(a) \div 2)) % Rows(a),
                                                  (j - (Cols(a) \div 2)) % Cols(a)))

ifftshift(a) == MkArr(Rows(a), Cols(a),
                      LAMBDA i, j : At(a, (i + (Rows(a) \div 2)) % Rows(a),
                                          (j + (Cols(a) \div 2)) % Cols(a)))

\* sum over the cells n..size of a[m1, m2] * exp(sgn * 2*pi*i * (k1*m1/rows + k2*m2/cols))
RECURSIVE DftSum(_, _, _, _, _)
DftSum(a, k1, k2, sgn, n) ==
    IF n > Size(a) THEN CZero
    ELSE CAdd(RotK((sgn * ((12 \div Rows(a)) * k1 * RowOf(a, n)
                           + (12 \div Cols(a)) * k2 * ColOf(a, n))) % 12,
                   a.flat[n]),
              DftSum(a, k1, k2, sgn, n + 1))

\* fft2, and ifft2 without its division by rows * cols
fft2(a) == MkArr(Rows(a), Cols(a), LAMBDA i, j : DftSum(a, i, j, -1, 1))
ifft2_times_size(a) == MkArr(Rows(a), Cols(a), LAMBDA i, j : DftSum(a, i, j, 1, 1))

\* A magnitude m >= 0 is the carried pair <<P, Q>> with (2 * 144 * Den * m)^2 = P + Q * sqrt(3).
\* Mag(z, size) is |z / size|; size divides 144.
Mag(z, size) ==
    LET k == (144 \div size) * (144 \div size)
        n == Norm2(z)
    IN  <<Carry7([d \in 1..7 |-> k * n[1][d]]), Carry7([d \in 1..7 |-> k * n[2][d]])>>
MagZero == <<BZero, BZero>>

\* np_fft(img, out): out[:] = fftshift(fft2(ifftshift(img))); img is real
np_fft(img) ==
    fftshift(fft2(ifftshift([img EXCEPT !.flat = [n \in 1..Size(img) |-> CReal(img.flat[n])]])))

\* np_ifft(kspace, out): np.absolute(fftshift(ifft2(ifftshift(kspace))), out=out)
np_ifft(kspace) ==
    LET t == fftshift(ifft2_times_size(ifftshift(kspace)))
    IN  [t EXCEPT !.flat = [n \in 1..Size(t) |-> Mag(t.flat[n], Size(t))]]

(***************************************************************************)
(* The slice: an ImageManipulators instance.                               *)
(*   img                  magnitudes (see Mag); prepare_displays windows   *)
(*                        them in place with image_display_data.lut        *)
(*   kspacedata, orig_kspacedata   complex                                 *)
(*   noise_map            real                                             *)
(*   image_display_data, kspace_display_data, kspace_abs                   *)
(*                        their shape and the display parameters their     *)
(*                        bytes were computed with (log1p and the 0..255   *)
(*                        scaling are not computed)                        *)
(***************************************************************************)
\* window_val = None: ww = fmax, wc = ww / 2, the window {ww: 1, wc: 0.5} (in percent)
None == [ww |-> 100, wc |-> 50]

prepare_displays(s, kscale, lut) ==
    [s EXCEPT !.image_display_data = [shape |-> @.shape, lut |-> lut],
              !.kspace_display_data = [shape |-> @.shape, kscale |-> kscale]]

\* ImageManipulators.__init__; pixel_data is real (no pixel negative) for an image,
\* complex for raw data
ImageManipulators(pixel_data, is_image) ==
    LET kspacedata == IF is_image THEN np_fft(pixel_data) ELSE pixel_data
        img == IF is_image
               THEN [pixel_data EXCEPT !.flat =
                        [n \in 1..Size(pixel_data) |-> Mag(CReal(pixel_data.flat[n]), 1)]]
               ELSE np_ifft(kspacedata)
    IN  prepare_displays(
            [img                 |-> img,
             kspacedata          |-> kspacedata,
             image_display_data  |-> [shape |-> img.shape, lut |-> None],
             kspace_display_data |-> [shape |-> img.shape, kscale |-> -3],
             orig_kspacedata     |-> kspacedata,
             kspace_abs          |-> [shape |-> kspacedata.shape],
             noise_map           |-> zeros_like(kspacedata, 0),
             signal_to_noise     |-> 30,
             spikes              |-> <<>>,
             patches             |-> <<>>],
            -3, None)

\* resize_arrays gone wrong: the original k-space is resized with the rest
resize_arrays_with_orig(s, size) ==
    [s EXCEPT !.img = resize(@, size, MagZero),
              !.image_display_data = [@ EXCEPT !.shape = size],
              !.kspace_display_data = [@ EXCEPT !.shape = size],
              !.kspace_abs = [@ EXCEPT !.shape = size],
              !.kspacedata = resize(@, size, CZero),
              !.orig_kspacedata = resize(@, size, CZero)]

\* resize_arrays gone wrong: image_display_data is left out
resize_arrays_but_display(s, size) ==
    [s EXCEPT !.img = resize(@, size, MagZero),
              !.kspace_display_data = [@ EXCEPT !.shape = size],
              !.kspace_abs = [@ EXCEPT !.shape = size],
              !.kspacedata = resize(@, size, CZero)]

\* the slice when the first done of the five resize calls of resize_arrays have
\* completed, in the order img, image_display_data, kspace_display_data, kspace_abs,
\* kspacedata
resize_arrays_upto(s, size, done) ==
    [s EXCEPT !.img = IF done >= 1 THEN resize(@, size, MagZero) ELSE @,
              !.image_display_data = IF done >= 2 THEN [@ EXCEPT !.shape = size] ELSE @,
              !.kspace_display_data = IF done >= 3 THEN [@ EXCEPT !.shape = size] ELSE @,
              !.kspace_abs = IF done >= 4 THEN [@ EXCEPT !.shape = size] ELSE @,
              !.kspacedata = IF done >= 5 THEN resize(@, size, CZero) ELSE @]

resize_arrays(s, size) == resize_arrays_upto(s, size, 5)

\* Yields [ok, s].  raised = 0: every resize call completes.  raised = 1..5: that
\* resize call raises (ndarray.resize raises ValueError when the array is referenced
\* elsewhere and refcheck is on, MemoryError when the buffer cannot be reallocated);
\* the calls before it have completed and nothing undoes them.
resize_arrays_raising(s, size, raised) ==
    IF raised = 0 THEN [ok |-> TRUE, s |-> resize_arrays(s, size)]
    ELSE [ok |-> FALSE, s |-> resize_arrays_upto(s, size, raised - 1)]

\* the mask gone wrong: mask[midline::-factor] = 0 is forgotten
KeptRowForward(rows, factor, i) ==
    LET midline == rows \div 2
    IN  i >= midline /\ (i - midline) % factor = 0

\* the mask gone wrong: mask[midline::factor] = 0 is forgotten
KeptRowBackward(rows, factor, i) ==
    LET midline == rows \div 2
    IN  i <= midline /\ (midline - i) % factor = 0

\* the rows mask[midline::factor] = 0 and mask[midline::-factor] = 0 clear
KeptRow(rows, factor, i) ==
    LET midline == rows \div 2
    IN  \/ i >= midline /\ (i - midline) % factor = 0
        \/ i <= midline /\ (midline - i) % factor = 0

\* the elements of a finite set of integers in ascending order
RECURSIVE Ascending(_)
Ascending(S) ==
    IF S = {} THEN <<>>
    ELSE LET m == CHOOSE x \in S : \A y \in S : x <= y
         IN  <<m>> \o Ascending(S \ {m})

\* q = kspace[~mask], reshaped: the kept rows
KeptRows(kspace, factor) ==
    LET kept == Ascending({i \in 0..(Rows(kspace) - 1) : KeptRow(Rows(kspace), factor, i)})
    IN  MkArr(Len(kept), Cols(kspace), LAMBDA i, j : At(kspace, kept[i + 1], j))

\* undersample(kspace, factor, compress), kspace being the k-space of the global
\* slice s, whose arrays the compress branch resizes
undersample(s, factor, compress) ==
    LET kspace == s.kspacedata
        q == KeptRows(kspace, factor)
    IN  IF factor > 1
        THEN IF compress
             THEN [resize_arrays(s, q.shape) EXCEPT !.kspacedata = q]
             ELSE [s EXCEPT !.kspacedata =
                      ZeroWhere(kspace, LAMBDA i, j : ~KeptRow(Rows(kspace), factor, i), CZero)]
        ELSE s

\* undersample with compress, a resize call of resize_arrays raising: the exception
\* leaves undersample before kspace[:] = q[:]
undersample_raising(s, factor, raised) ==
    IF raised = 0 THEN [ok |-> TRUE, s |-> undersample(s, factor, TRUE)]
    ELSE resize_arrays_raising(s, KeptRows(s.kspacedata, factor).shape, raised)

(***************************************************************************)
(* MainApp.image_change: the recompute.  u holds the control values read,  *)
(* randn the draw add_noise makes if it regenerates the map.  Yields       *)
(* [ok, s]: ok = FALSE when a filter raised, s then being the slice as the *)
(* exception left it.                                                      *)
(***************************************************************************)
\* F(v), v being evaluated once
Then(v, F(_)) == CHOOSE r \in {F(x) : x \in {v}} : TRUE

\* the numbered steps of image_change, each applied to the slice s
Step(n, s, u, randn) ==
    CASE n = 0 ->   \* the original k-space is restored, the arrays resized to it
            [ok |-> TRUE,
             s  |-> [resize_arrays(s, s.orig_kspacedata.shape)
                        EXCEPT !.kspacedata = s.orig_kspacedata]]
      [] n = 1 ->   \* 01 - Noise
            LET new_snr == u.noise_slider
                generate_new == new_snr # s.signal_to_noise
            IN  Then(add_noise(s.kspacedata, new_snr, s.noise_map, generate_new, randn),
                     LAMBDA r : [ok |-> TRUE,
                                 s  |-> [s EXCEPT !.signal_to_noise =
                                                      IF generate_new THEN new_snr ELSE @,
                                                  !.noise_map = r.noise,
                                                  !.kspacedata = r.kspace]])
      [] n = 2 ->   \* 02 - Spikes
            [ok |-> TRUE, s |-> [s EXCEPT !.kspacedata = apply_spikes(@, s.spikes)]]
      [] n = 3 ->   \* 03 - Patches
            [ok |-> TRUE, s |-> [s EXCEPT !.kspacedata = apply_patches(@, s.patches)]]
      [] n = 4 ->   \* 04 - Reduced scan percentage
            [ok |-> TRUE,
             s  |-> IF u.rdc_enabled
                    THEN [s EXCEPT !.kspacedata = reduced_scan_percentage(@, u.rdc_slider)]
                    ELSE s]
      [] n = 5 ->   \* 05 - Partial fourier
            [ok |-> TRUE,
             s  |-> IF u.partial_fourier_enabled
                    THEN [s EXCEPT !.kspacedata =
                             partial_fourier(@, u.partial_fourier_slider, u.zero_fill)]
                    ELSE s]
      [] n = 6 ->   \* 06 - High pass filter
            [ok |-> TRUE,
             s  |-> [s EXCEPT !.kspacedata = high_pass_filter(@, u.high_pass_slider)]]
      [] n = 7 ->   \* 07 - Low pass filter
            [ok |-> TRUE,
             s  |-> [s EXCEPT !.kspacedata = low_pass_filter(@, u.low_pass_slider)]]
      [] n = 8 ->   \* 08 - Undersample k-space
            [ok |-> TRUE,
             s  |-> IF u.undersample_kspace # 0
                    THEN undersample(s, u.undersample_kspace, u.compress)
                    ELSE s]
      [] n = 9 ->   \* 09 - DC signal decrease
            [ok |-> TRUE,
             s  |-> IF u.decrease_dc > 1
                    THEN [s EXCEPT !.kspacedata = decrease_dc(@, u.decrease_dc)]
                    ELSE s]
      [] n = 10 ->  \* 10 - Hamming filter
            [ok |-> TRUE,
             s  |-> IF u.hamming THEN [s EXCEPT !.kspacedata = hamming(@)] ELSE s]
      [] n = 11 ->  \* 11 - Acquisition simulation progress
            IF u.filling < 100
            THEN Then(filling(s.kspacedata, u.filling, u.filling_mode),
                      LAMBDA r : [ok |-> r.ok, s |-> [s EXCEPT !.kspacedata = r.kspace]])
            ELSE [ok |-> TRUE, s |-> s]
      [] OTHER ->   \* im.np_ifft(kspace=im.kspacedata, out=im.img); im.prepare_displays(...)
            [ok |-> TRUE,
             s  |-> prepare_displays([s EXCEPT !.img = np_ifft(s.kspacedata)],
                                     u.ksp_const, [ww |-> u.ww, wc |-> u.wc])]

\* the steps n, n + 1, ... in order, up to the first that raises
RECURSIVE StepsFrom(_, _, _, _)
StepsFrom(n, d, u, randn) ==
    IF n > 12 \/ ~d.ok THEN d
    ELSE Then(Step(n, d.s, u, randn), LAMBDA x : StepsFrom(n + 1, x, u, randn))

image_change(s0, u, randn) == StepsFrom(0, [ok |-> TRUE, s |-> s0], u, randn)

(***************************************************************************)
(* Inputs                                                                  *)
(***************************************************************************)
\* the values each control takes (percentages, dB, checkbox states)
Controls ==
    [noise_slider            |-> {30, 20, 10},
     rdc_enabled             |-> BOOLEAN,
     rdc_slider              |-> {100, 50},
     partial_fourier_enabled |-> BOOLEAN,
     partial_fourier_slider  |-> {100, 0},
     zero_fill               |-> BOOLEAN,
     high_pass_slider        |-> {0, 30},
     low_pass_slider         |-> {100, 40},
     undersample_kspace      |-> {0, 2},
     compress                |-> BOOLEAN,
     decrease_dc             |-> {0, 1, 50},
     hamming                 |-> BOOLEAN,
     filling                 |-> {100, 50},
     filling_mode            |-> 0..3,
     ksp_const               |-> {-3, -2},
     ww                      |-> {100, 50},
     wc                      |-> {50}]

\* the controls as the user interface starts: every filter off
Neutral ==
    [noise_slider            |-> 30,
     rdc_enabled             |-> TRUE,
     rdc_slider              |-> 100,
     partial_fourier_enabled |-> TRUE,
     partial_fourier_slider  |-> 100,
     zero_fill               |-> FALSE,
     high_pass_slider        |-> 0,
     low_pass_slider         |-> 100,
     undersample_kspace      |-> 0,
     compress                |-> FALSE,
     decrease_dc             |-> 0,
     hamming                 |-> FALSE,
     filling                 |-> 100,
     filling_mode            |-> 0,
     ksp_const               |-> -3,
     ww                      |-> 100,
     wc                      |-> 50]

\* files open_file can yield: two images and one raw two-channel k-space
Files == {"image4x2", "image3x2", "raw2x3"}

Pixels(f) ==
    IF f = "image4x2"
    THEN [shape |-> <<4, 2>>,
          flat  |-> <<Den, 2 * Den, 0, Den, 2 * Den, Den, Den, 0>>]
    ELSE [shape |-> <<3, 2>>,
          flat  |-> <<0, Den, 2 * Den, Den, Den, 0>>]

RawChannel(channel) ==
    MkArr(2, 3, LAMBDA i, j : <<Den * (1 + ((i + 2 * j + channel) % 3)), 0, 0,
                                Den * ((i * j + channel) % 2)>>)

\* what add_noise may draw for a slice of the given shape
NoiseDraws(shape) ==
    {[shape |-> shape,
      flat  |-> [n \in 1..(shape[1] * shape[2]) |-> Den * (((n + seed) % 3) - 1)]]
        : seed \in {1, 2}}

\* mouse positions (row, column) the k-space display reports, and the patch radius
Clicks(shape) == {<<0, 0>>, <<shape[1] \div 2, shape[2] \div 2>>}
PatchRadii == {1}

(***************************************************************************)
(* The application: MainApp's slots.  A run is a start-up followed by at   *)
(* most MaxEdits slot invocations.                                         *)
(***************************************************************************)
MaxEdits == 2

NoCall == [op |-> "none"]

\* execute_load: the slices a file is turned into
Loaded(f) ==
    IF f = "raw2x3"
    THEN [channel \in 0..1 |-> ImageManipulators(RawChannel(channel), FALSE)]
    ELSE [id \in {0} |-> ImageManipulators(Pixels(f), TRUE)]

\* the recompute gone wrong: it ends with the recorded spikes and patches cleared
Recompute_clearing_marks(u, h, cur) ==
    \E randn \in (IF u.noise_slider # h[cur].signal_to_noise /\ u.noise_slider < 30
                  THEN NoiseDraws(h[cur].orig_kspacedata.shape)
                  ELSE {zeros_like(h[cur].orig_kspacedata, 0)}) :
        LET r == image_change(h[cur], u, randn)
        IN  /\ heap' = [h EXCEPT ![cur] = [r.s EXCEPT !.spikes = <<>>, !.patches = <<>>]]
            /\ alive' = r.ok

\* update_displays -> image_change on the slice on display
Recompute(u, h, cur) ==
    \E randn \in (IF u.noise_slider # h[cur].signal_to_noise /\ u.noise_slider < 30
                  THEN NoiseDraws(h[cur].orig_kspacedata.shape)
                  ELSE {zeros_like(h[cur].orig_kspacedata, 0)}) :
        LET r == image_change(h[cur], u, randn)
        IN  /\ heap' = [h EXCEPT ![cur] = r.s]
            /\ alive' = r.ok

\* the slot called name runs: the process is alive
Slot(name) ==
    /\ alive
    /\ edits < MaxEdits
    /\ edits' = edits + 1
    /\ call' = [op |-> name]

Init ==
    /\ ui = Neutral
    /\ heap = Loaded("image4x2")
    /\ im = 0
    /\ img_instances = <<>>
    /\ alive = TRUE
    /\ call = NoCall
    /\ edits = 0

\* the controls as the user may leave them before the slot runs: as they are, or one changed
Settings(u) == UNION {{[u EXCEPT ![c] = v] : v \in Controls[c]} : c \in DOMAIN Controls}

\* the user interface calls the slot, the controls holding u
update_displays(u) ==
    /\ Slot("update_displays")
    /\ ui' = u
    /\ Recompute(u, heap, im)
    /\ UNCHANGED <<im, img_instances>>

channel_change(channel) ==
    /\ Slot("channel_change")
    /\ channel \in DOMAIN img_instances
    /\ im' = img_instances[channel]
    /\ Recompute(ui, heap, im')
    /\ UNCHANGED <<ui, img_instances>>

load_new_img(f) ==
    /\ Slot("load_new_img")
    /\ im' = 0
    /\ img_instances' = IF f = "raw2x3" THEN [channel \in 0..1 |-> channel] ELSE <<>>
    /\ Recompute(ui, Loaded(f), 0)
    /\ UNCHANGED ui

add_spike(mouse_x, mouse_y) ==
    /\ Slot("add_spike")
    /\ heap' = [heap EXCEPT ![im].spikes = Append(@, <<mouse_y, mouse_x>>)]
    /\ UNCHANGED <<ui, im, img_instances, alive>>

add_patch(mouse_x, mouse_y, radius) ==
    /\ Slot("add_patch")
    /\ heap' = [heap EXCEPT ![im].patches = Append(@, <<mouse_y, mouse_x, radius>>)]
    /\ UNCHANGED <<ui, im, img_instances, alive>>

delete_spikes ==
    /\ Slot("delete_spikes")
    /\ heap' = [heap EXCEPT ![im].spikes = <<>>]
    /\ UNCHANGED <<ui, im, img_instances, alive>>

delete_patches ==
    /\ Slot("delete_patches")
    /\ heap' = [heap EXCEPT ![im].patches = <<>>]
    /\ UNCHANGED <<ui, im, img_instances, alive>>

undo_patch ==
    /\ Slot("undo_patch")
    /\ heap' = [heap EXCEPT ![im].patches =
                   IF @ # <<>> THEN SubSeq(@, 1, Len(@) - 1) ELSE @]
    /\ UNCHANGED <<ui, im, img_instances, alive>>

undo_spike ==
    /\ Slot("undo_spike")
    /\ heap' = [heap EXCEPT ![im].spikes =
                   IF @ # <<>> THEN SubSeq(@, 1, Len(@) - 1) ELSE @]
    /\ UNCHANGED <<ui, im, img_instances, alive>>

Next ==
    \/ \E u \in Settings(ui) : update_displays(u)
    \/ \E channel \in 0..1 : channel_change(channel)
    \/ \E f \in Files : load_new_img(f)
    \/ \E p \in Clicks(heap[im].kspacedata.shape) : add_spike(p[2], p[1])
    \/ \E p \in Clicks(heap[im].kspacedata.shape) : \E radius \in PatchRadii :
           add_patch(p[2], p[1], radius)
    \/ delete_spikes
    \/ delete_patches
    \/ undo_patch
    \/ undo_spike

Spec == Init /\ [][Next]_vars

(***************************************************************************)
(* The engine on its own: direct calls of ImageManipulators' functions,    *)
(* call holding the arguments and the result of the last one.  The calls   *)
(* do not depend on one another: each starts from the state at start-up.   *)
(***************************************************************************)
MaxRows == 6
MaxCols == 3

\* a k-space whose cells are all different, none zero, none real: cell n is n + (20 + n)i
Labelled(rows, cols) ==
    MkArr(rows, cols, LAMBDA i, j : <<Den * (1 + i * cols + j), 0, 0, Den * (21 + i * cols + j)>>)

Shapes == (1..MaxRows) \X (1..MaxCols)
\* the shapes whose transforms the ring holds
TransformShapes == {sh \in Shapes : 12 % sh[1] = 0 /\ 12 % sh[2] = 0}
Percentages == 0..100

\* real images: flat, a ramp, a ramp around zero (negative pixels), a single negative pixel
Images ==
    {[shape |-> sh, flat |-> [n \in 1..(sh[1] * sh[2]) |-> Den * v[n]]] :
        sh \in {t \in TransformShapes : t[1] <= 4 /\ t[2] <= 4},
        v \in {[n \in 1..16 |-> 1], [n \in 1..16 |-> n], [n \in 1..16 |-> n - 2],
               [n \in 1..16 |-> (n * n) % 5], [n \in 1..16 |-> IF n = 1 THEN -3 ELSE 0],
               [n \in 1..16 |-> 0]}}

\* a raw k-space whose cell of greatest magnitude, -5 at (0, 0), has a negative real
\* part; the other cells are 1 or 2 plus -1, 0 or 1 times i
Signed(rows, cols) ==
    MkArr(rows, cols,
          LAMBDA i, j : IF i = 0 /\ j = 0 THEN CReal(-5 * Den)
                        ELSE <<Den * (1 + ((i + j) % 2)), 0, 0,
                               Den * (((i * cols + j) % 3) - 1)>>)

\* k-spaces apply_spikes and apply_patches are called on: raw data, and the k-space of
\* an image without negative pixels
MarkedInputs ==
    {Labelled(sh[1], sh[2]) : sh \in {<<2, 2>>, <<3, 2>>}}
        \cup {Signed(sh[1], sh[2]) : sh \in {<<2, 2>>, <<3, 2>>}}
        \cup {np_fft(Pixels("image4x2"))}

\* the lists of recorded spikes: none, one, two (the same cell twice included)
SpikeLists(shape) ==
    LET cells == Clicks(shape) \cup {<<shape[1] - 1, shape[2] - 1>>}
    IN  {<<>>} \cup {<<p>> : p \in cells} \cup {<<p, q>> : p \in cells, q \in cells}

\* the lists of recorded patches: one patch of half size 0..2 centered in, at or
\* beyond the edges of the array, or two patches inside it
PatchLists(shape) ==
    {<<<<x, y, size>>>> : x \in (-4)..(shape[1] + 1), y \in (-4)..(shape[2] + 1),
                          size \in 0..2}
        \cup {<<<<0, 0, 0>>, <<shape[1] - 1, shape[2] - 1, size>>>> : size \in 0..1}

\* the slices execute_load makes of the files
LoadedSlices == UNION {{Loaded(f)[id] : id \in DOMAIN Loaded(f)} : f \in Files}

\* raw slices of every shape the transforms take
RawSlices == {ImageManipulators(Labelled(sh[1], sh[2]), FALSE) : sh \in TransformShapes}

\* the controls with every filter off but the DC decrease, at any percentage
DcSettings == {[Neutral EXCEPT !.decrease_dc = pct] : pct \in Percentages}

\* the controls with undersampling by a factor of 2..4 and a DC decrease
UndersampleDcSettings ==
    {[Neutral EXCEPT !.undersample_kspace = factor, !.compress = compress,
                     !.decrease_dc = pct] :
        factor \in 2..4, compress \in BOOLEAN, pct \in {1, 50}}

\* the k-space of a real image: conjugate-symmetric about (rows // 2, cols // 2), each
\* cell being a cell of Labelled plus the conjugate of the cell opposite
Symmetric(rows, cols) ==
    MkArr(rows, cols,
          LAMBDA i, j : CAdd(At(Labelled(rows, cols), i, j),
                             CConj(At(Labelled(rows, cols),
                                      (2 * (rows \div 2) - i) % rows,
                                      (2 * (cols \div 2) - j) % cols))))

SymmetricInputs == {Symmetric(sh[1], sh[2]) : sh \in Shapes}

call_np_fft(img) ==
    /\ call = NoCall
    /\ call' = [op |-> "np_fft", img |-> img, out |-> np_fft(img)]
    /\ UNCHANGED <<ui, heap, im, img_instances, alive, edits>>

\* the k-space the last call produced is transformed back
call_np_ifft ==
    /\ call.op = "np_fft"
    /\ call' = [op |-> "np_ifft", img |-> call.img, kspace |-> call.out,
                out |-> np_ifft(call.out)]
    /\ UNCHANGED <<ui, heap, im, img_instances, alive, edits>>

call_reduced_scan_percentage(kspace, percentage) ==
    /\ call = NoCall
    /\ call' = [op |-> "reduced_scan_percentage", kspace |-> kspace,
                percentage |-> percentage,
                out |-> reduced_scan_percentage(kspace, percentage)]
    /\ UNCHANGED <<ui, heap, im, img_instances, alive, edits>>

call_partial_fourier(kspace, percentage, zf) ==
    /\ call = NoCall
    /\ call' = [op |-> "partial_fourier", kspace |-> kspace, percentage |-> percentage,
                zf |-> zf, out |-> partial_fourier(kspace, percentage, zf)]
    /\ UNCHANGED <<ui, heap, im, img_instances, alive, edits>>

call_high_pass_filter(kspace, radius) ==
    /\ call = NoCall
    /\ call' = [op |-> "high_pass_filter", kspace |-> kspace, radius |-> radius,
                out |-> high_pass_filter(kspace, radius)]
    /\ UNCHANGED <<ui, heap, im, img_instances, alive, edits>>

call_low_pass_filter(kspace, radius) ==
    /\ call = NoCall
    /\ call' = [op |-> "low_pass_filter", kspace |-> kspace, radius |-> radius,
                out |-> low_pass_filter(kspace, radius)]
    /\ UNCHANGED <<ui, heap, im, img_instances, alive, edits>>

\* undersample on the k-space of the global slice s
call_undersample(s, factor, compress) ==
    /\ call = NoCall
    /\ call' = [op |-> "undersample", s |-> s, factor |-> factor, compress |-> compress,
                out |-> undersample(s, factor, compress)]
    /\ UNCHANGED <<ui, heap, im, img_instances, alive, edits>>

call_filling_linear(kspace, value) ==
    /\ call = NoCall
    /\ call' = [op |-> "filling_linear", kspace |-> kspace, value |-> value,
                out |-> filling_linear(kspace, value)]
    /\ UNCHANGED <<ui, heap, im, img_instances, alive, edits>>

call_filling_centric(kspace, value) ==
    /\ call = NoCall
    /\ call' = [op |-> "filling_centric", kspace |-> kspace, value |-> value,
                out |-> filling_centric(kspace, value)]
    /\ UNCHANGED <<ui, heap, im, img_instances, alive, edits>>

call_apply_spikes(kspace, spikes) ==
    /\ call = NoCall
    /\ call' = [op |-> "apply_spikes", kspace |-> kspace, spikes |-> spikes,
                out |-> apply_spikes(kspace, spikes)]
    /\ UNCHANGED <<ui, heap, im, img_instances, alive, edits>>

call_apply_patches(kspace, patches) ==
    /\ call = NoCall
    /\ call' = [op |-> "apply_patches", kspace |-> kspace, patches |-> patches,
                out |-> apply_patches(kspace, patches)]
    /\ UNCHANGED <<ui, heap, im, img_instances, alive, edits>>

\* a recompute of the slice s, the controls holding u (the noise control is left at
\* the slice's SNR: add_noise draws nothing)
call_image_change(s, u) ==
    /\ call = NoCall
    /\ u.noise_slider = s.signal_to_noise
    /\ call' = [op |-> "image_change", s |-> s, u |-> u,
                out |-> image_change(s, u, zeros_like(s.orig_kspacedata, 0))]
    /\ UNCHANGED <<ui, heap, im, img_instances, alive, edits>>

\* ndarray.resize can raise only when the number of cells changes
CanRaise(s, size, raised) == raised = 0 \/ size[1] * size[2] # Size(s.kspacedata)

call_resize_arrays(s, size, raised) ==
    /\ call = NoCall
    /\ CanRaise(s, size, raised)
    /\ call' = [op |-> "resize_arrays", s |-> s, size |-> size, raised |-> raised,
                out |-> resize_arrays_raising(s, size, raised)]
    /\ UNCHANGED <<ui, heap, im, img_instances, alive, edits>>

\* undersample with compress on the k-space of the global slice s
call_undersample_compress(s, factor, raised) ==
    /\ call = NoCall
    /\ factor > 1
    /\ CanRaise(s, KeptRows(s.kspacedata, factor).shape, raised)
    /\ call' = [op |-> "undersample_compress", s |-> s, factor |-> factor,
                size |-> KeptRows(s.kspacedata, factor).shape, raised |-> raised,
                out |-> undersample_raising(s, factor, raised)]
    /\ UNCHANGED <<ui, heap, im, img_instances, alive, edits>>

EngineNext ==
    \/ \E img \in Images : call_np_fft(img)
    \/ call_np_ifft
    \/ \E sh \in Shapes : \E percentage \in Percentages :
           call_reduced_scan_percentage(Labelled(sh[1], sh[2]), percentage)
    \/ \E sh \in Shapes : \E percentage \in Percentages : \E zf \in BOOLEAN :
           call_partial_fourier(Labelled(sh[1], sh[2]), percentage, zf)
    \/ \E kspace \in SymmetricInputs : \E percentage \in Percentages :
           call_partial_fourier(kspace, percentage, FALSE)
    \/ \E sh \in Shapes : \E radius \in 0..99 :
           call_high_pass_filter(Labelled(sh[1], sh[2]), radius)
    \/ \E sh \in Shapes : \E radius \in Percentages :
           call_low_pass_filter(Labelled(sh[1], sh[2]), radius)
    \/ \E sh \in TransformShapes : \E factor \in 0..4 : \E compress \in BOOLEAN :
           call_undersample(ImageManipulators(Labelled(sh[1], sh[2]), FALSE), factor, compress)
    \/ \E sh \in Shapes : \E value \in Percentages :
           call_filling_linear(Labelled(sh[1], sh[2]), value)
    \/ \E sh \in Shapes : \E value \in Percentages :
           call_filling_centric(Labelled(sh[1], sh[2]), value)
    \/ \E kspace \in MarkedInputs : \E spikes \in SpikeLists(kspace.shape) :
           call_apply_spikes(kspace, spikes)
    \/ \E kspace \in MarkedInputs : \E patches \in PatchLists(kspace.shape) :
           call_apply_patches(kspace, patches)
    \/ \E s \in LoadedSlices : \E u \in DcSettings : call_image_change(s, u)
    \/ \E s \in LoadedSlices : \E size \in Shapes : \E raised \in 0..5 :
           call_resize_arrays(s, size, raised)
    \/ \E s \in LoadedSlices : \E factor \in 2..3 : \E raised \in 0..5 :
           call_undersample_compress(s, factor, raised)
    \/ \E s \in RawSlices : \E u \in UndersampleDcSettings : call_image_change(s, u)

EngineSpec == Init /\ [][EngineNext]_vars

(***************************************************************************)
(* Properties of the application, under Spec                               *)
(***************************************************************************)
\* the slots that end with a recompute of the slice on display
RecomputeSlots == {"update_displays", "channel_change", "load_new_img"}

\* every filter control other than the noise slider at the value that disables it
OtherFiltersOff(u) ==
    /\ u.rdc_slider = 100
    /\ u.partial_fourier_slider = 100
    /\ u.high_pass_slider = 0
    /\ u.low_pass_slider = 100
    /\ u.undersample_kspace <= 1
    /\ u.decrease_dc = 0
    /\ ~u.hamming
    /\ u.filling = 100

Unmarked(s) == s.spikes = <<>> /\ s.patches = <<>>

\* kspace + noise, cell by cell
WithNoise(kspace, noise) ==
    [kspace EXCEPT !.flat = [n \in 1..Size(kspace) |->
                                CAdd(kspace.flat[n], CReal(noise.flat[n]))]]

\* C1: in every step that does not load a file (loading constructs new slices), be it
\* a recompute under any settings, a spike or patch edit or a channel change, the
\* orig_kspacedata of every slice keeps its shape and the value of every cell.
C1_OrigKept ==
    [][call'.op # "load_new_img"
       => \A id \in DOMAIN heap :
              heap'[id].orig_kspacedata = heap[id].orig_kspacedata]_vars

\* C1's case: a second or later slot has left the working k-space of the slice on
\* display different from its original
C1_Witness ==
    /\ edits >= 2
    /\ call.op = "update_displays"
    /\ heap[im].kspacedata # heap[im].orig_kspacedata

\* C2: after construction and after every recompute that ended, img,
\* image_display_data, kspace_display_data and kspacedata of every slice have one
\* shape; for the slice on display it is the shape of orig_kspacedata, unless the
\* recompute undersampled with a factor > 1 and compress, and then it is
\* (number of rows i with (i - rows // 2) mod factor = 0, cols).
C2_ShapesAgree ==
    alive =>
        /\ \A id \in DOMAIN heap :
               /\ heap[id].img.shape = heap[id].kspacedata.shape
               /\ heap[id].image_display_data.shape = heap[id].kspacedata.shape
               /\ heap[id].kspace_display_data.shape = heap[id].kspacedata.shape
        /\ LET rows == heap[im].orig_kspacedata.shape[1]
               cols == heap[im].orig_kspacedata.shape[2]
               factor == ui.undersample_kspace
           IN  heap[im].kspacedata.shape =
                   IF factor > 1 /\ ui.compress
                   THEN <<Cardinality({i \in 0..(rows - 1) :
                                          (i - (rows \div 2)) % factor = 0}), cols>>
                   ELSE <<rows, cols>>

\* C2's case: the recompute compressed the arrays
C2_Witness ==
    /\ alive
    /\ call.op \in RecomputeSlots
    /\ ui.undersample_kspace > 1 /\ ui.compress
    /\ heap[im].kspacedata.shape # heap[im].orig_kspacedata.shape
    /\ heap[im].img.shape = heap[im].kspacedata.shape

C5_NoiseCache ==
    [][call'.op \in {"update_displays", "channel_change"} /\ alive'
       => LET pre == heap[im']
              post == heap'[im']
              req == ui'.noise_slider
              clean == OtherFiltersOff(ui') /\ Unmarked(post)
          IN  /\ post.noise_map # pre.noise_map
                    => req # pre.signal_to_noise /\ req < 30
              /\ req = pre.signal_to_noise /\ req < 30
                    => /\ post.noise_map = pre.noise_map
                       /\ clean => post.kspacedata =
                                       WithNoise(post.orig_kspacedata, pre.noise_map)
              /\ req >= 30 /\ clean => post.kspacedata = post.orig_kspacedata]_vars

\* C5's case: after a second or later recompute the slice holds the noise of the SNR
\* asked for, added to the original k-space
C5_Witness ==
    /\ edits >= 2
    /\ call.op = "update_displays"
    /\ ui.noise_slider < 30
    /\ heap[im].signal_to_noise = ui.noise_slider
    /\ heap[im].noise_map # zeros_like(heap[im].noise_map, 0)
    /\ OtherFiltersOff(ui) /\ Unmarked(heap[im])
    /\ heap[im].kspacedata = WithNoise(heap[im].orig_kspacedata, heap[im].noise_map)

\* new is old with one entry appended at the end
Appended(old, new) == Len(new) = Len(old) + 1 /\ SubSeq(new, 1, Len(old)) = old

\* new is old without its last entry, or old itself if old is empty
LastRemoved(old, new) ==
    IF old = <<>> THEN new = <<>> ELSE new = SubSeq(old, 1, Len(old) - 1)

\* the lists of every slice but (perhaps) the spikes or patches of the slice id are
\* as they were
MarksKept(id, spikes_too, patches_too) ==
    /\ DOMAIN heap' = DOMAIN heap
    /\ \A x \in DOMAIN heap :
           /\ (x # id \/ spikes_too) => heap'[x].spikes = heap[x].spikes
           /\ (x # id \/ patches_too) => heap'[x].patches = heap[x].patches

AbsOf(img) == [img EXCEPT !.flat = [n \in 1..Size(img) |-> Mag(CReal(img.flat[n]), 1)]]

ZeroRow(a, i) == \A j \in 0..(Cols(a) - 1) : At(a, i, j) = CZero
SameRow(a, b, i) == \A j \in 0..(Cols(a) - 1) : At(a, i, j) = At(b, i, j)
\* the cells (by their place in the buffer) that hold zero
Zeroed(a) == {n \in 1..Size(a) : a.flat[n] = CZero}
AllCells(a) == 1..Size(a)

\* C4, as the code has it: for a real image of any of the sizes, np_ifft of np_fft of
\* the image holds the magnitude |pixel| of every pixel; it is the image itself
\* when no pixel is negative.
C4_RoundTripMagnitude ==
    call.op = "np_ifft" => call.out = AbsOf(call.img)

\* C4's case: an image of odd x even size with a negative pixel went both ways
C4_Witness ==
    /\ call.op = "np_ifft"
    /\ call.img.shape = <<3, 2>>
    /\ \E n \in 1..Size(call.img) : call.img.flat[n] < 0
    /\ \E n \in 1..Size(call.img) : call.img.flat[n] > 0

\* C4 as stated: np_ifft of np_fft of any real image reproduces the image, every pixel
\* with its sign
C4_RoundTripImage ==
    call.op = "np_ifft"
    => /\ call.out = AbsOf(call.img)
       /\ \A n \in 1..Size(call.img) : call.img.flat[n] >= 0

\* C6: with L = round((1 - p/100) * rows / 2), reduced_scan_percentage zeroes the rows
\* i < L and i >= rows - L, min(2L, rows) rows in all, and leaves the other rows as
\* they were; with p = 100 or L = 0 it changes nothing.
C6_ReducedScan ==
    call.op = "reduced_scan_percentage"
    => LET rows == Rows(call.kspace)
           L == Round((100 - call.percentage) * rows, 200)
       IN  /\ call.out.shape = call.kspace.shape
           /\ \A i \in 0..(rows - 1) :
                  IF i < L \/ i >= rows - L
                  THEN ZeroRow(call.out, i)
                  ELSE SameRow(call.out, call.kspace, i)
           /\ Cardinality({i \in 0..(rows - 1) : ZeroRow(call.out, i)}) = Min(2 * L, rows)
           /\ (call.percentage = 100 \/ L = 0) => call.out = call.kspace

\* C6's case: 6 rows at 50 percent, L = round(1.5) = 2, rows 0, 1, 4, 5 zeroed
C6_Witness ==
    /\ call.op = "reduced_scan_percentage"
    /\ Rows(call.kspace) = 6 /\ call.percentage = 50
    /\ {i \in 0..5 : ZeroRow(call.out, i)} = {0, 1, 4, 5}

\* C7: for p < 100 and skip = round((1 - p/100) * (rows/2 - 1)), partial_fourier
\* changes the last skip rows only: to zero with zf, else cell (i, j) to the conjugate
\* of the input's cell ((2*(rows//2) - i) mod rows, (2*(cols//2) - j) mod cols).
C7_PartialFourier ==
    call.op = "partial_fourier" /\ call.percentage < 100
    => LET rows == Rows(call.kspace)
           cols == Cols(call.kspace)
           skip == Round((100 - call.percentage) * (rows - 2), 200)
       IN  /\ call.out.shape = call.kspace.shape
           /\ \A i \in 0..(rows - 1) : \A j \in 0..(cols - 1) :
                  At(call.out, i, j) =
                      IF i < rows - skip THEN At(call.kspace, i, j)
                      ELSE IF call.zf THEN CZero
                      ELSE CConj(At(call.kspace, (2 * (rows \div 2) - i) % rows,
                                                 (2 * (cols \div 2) - j) % cols))

\* C7's case: two rows of a 6 x 2 k-space are filled from their mirror
C7_Witness ==
    /\ call.op = "partial_fourier"
    /\ ~call.zf /\ call.percentage = 0
    /\ call.kspace.shape = <<6, 2>>
    /\ {i \in 0..5 : ~SameRow(call.out, call.kspace, i)} = {4, 5}

\* C8, as the code has it: for 0 < r < 100 the cells high_pass_filter(k, r) zeroes and
\* the cells low_pass_filter(k, r) zeroes, the radius being the same, are disjoint
\* and together are all the cells.
C8_SameRadiusComplement ==
    call.op \in {"high_pass_filter", "low_pass_filter"}
        /\ 0 < call.radius /\ call.radius < 100
    => LET hp == IF call.op = "high_pass_filter" THEN call.out
                 ELSE high_pass_filter(call.kspace, call.radius)
           lp == IF call.op = "low_pass_filter" THEN call.out
                 ELSE low_pass_filter(call.kspace, call.radius)
       IN  /\ Zeroed(hp) \cap Zeroed(lp) = {}
           /\ Zeroed(hp) \cup Zeroed(lp) = AllCells(call.kspace)

\* C8's case: a radius that is not 50, the high pass zeroing some cells and not all
C8_Witness ==
    /\ call.op = "high_pass_filter"
    /\ call.radius = 30
    /\ call.kspace.shape = <<6, 3>>
    /\ Zeroed(call.out) # {}
    /\ Zeroed(call.out) # AllCells(call.kspace)

\* C8 as stated: for 0 < r < 100 the cells high_pass_filter(k, r) zeroes and the cells
\* low_pass_filter(k, 100 - r) zeroes are disjoint and together are all the cells.
C8_MirroredRadiusComplement ==
    call.op = "high_pass_filter" /\ 0 < call.radius /\ call.radius < 100
    => LET lp == low_pass_filter(call.kspace, 100 - call.radius)
       IN  /\ Zeroed(call.out) \cap Zeroed(lp) = {}
           /\ Zeroed(call.out) \cup Zeroed(lp) = AllCells(call.kspace)

\* C9: for a factor n > 1 undersample without compress keeps row i exactly when
\* (i - rows // 2) mod n = 0, zeroes the other rows and changes no shape; with
\* compress the k-space becomes the kept rows in ascending order and img,
\* image_display_data and kspace_display_data take its shape; a factor <= 1 changes
\* nothing.
C9_Undersample ==
    call.op = "undersample"
    => LET k == call.s.kspacedata
           o == call.out.kspacedata
           rows == Rows(k)
           kept == {i \in 0..(rows - 1) : (i - (rows \div 2)) % call.factor = 0}
       IN  IF call.factor <= 1 THEN call.out = call.s
           ELSE IF ~call.compress
           THEN /\ call.out = [call.s EXCEPT !.kspacedata = o]
                /\ o.shape = k.shape
                /\ \A i \in 0..(rows - 1) :
                       IF i \in kept THEN SameRow(o, k, i) ELSE ZeroRow(o, i)
           ELSE /\ o.shape = <<Cardinality(kept), Cols(k)>>
                /\ \A i \in kept :
                       \A j \in 0..(Cols(k) - 1) :
                           At(o, Cardinality({x \in kept : x < i}), j) = At(k, i, j)
                /\ call.out.img.shape = o.shape
                /\ call.out.image_display_data.shape = o.shape
                /\ call.out.kspace_display_data.shape = o.shape

\* C9's case: 6 rows, factor 2, compress: rows 1, 3, 5 are kept and the arrays shrink
C9_Witness ==
    /\ call.op = "undersample"
    /\ call.compress /\ call.factor = 2
    /\ call.s.kspacedata.shape = <<6, 3>>
    /\ call.out.kspacedata.shape = <<3, 3>>
    /\ call.out.img.shape = <<3, 3>>
    /\ SameRow(call.out.kspacedata, Labelled(6, 3), 0) = FALSE

\* C10: filling_linear zeroes the cells whose row-major index is >= floor(size*v/100)
\* and leaves the cells before them as they were.
C10_FillingLinear ==
    call.op = "filling_linear"
    => LET size == Size(call.kspace)
           start == (size * call.value) \div 100
       IN  /\ call.out.shape = call.kspace.shape
           /\ \A n \in 0..(size - 1) :
                  call.out.flat[n + 1] = IF n >= start THEN CZero
                                         ELSE call.kspace.flat[n + 1]

\* C10's case: 8 cells and v = 50, the cells of index 4..7 zeroed
C10_Witness ==
    /\ call.op = "filling_linear"
    /\ Size(call.kspace) = 8 /\ call.value = 50
    /\ Zeroed(call.out) = {5, 6, 7, 8}

\* the rows 0..rows-1 in the order center, then alternately one step to one side
\* and one to the other, the rows a step takes outside the array being left out;
\* lower_first tells which side comes first
CentricOrder(rows, lower_first) ==
    LET h == rows \div 2
        cand == [p \in 1..(2 * rows + 1) |->
                    IF p = 1 THEN h
                    ELSE IF (p % 2 = 0) = lower_first THEN h - (p \div 2)
                    ELSE h + (p \div 2)]
        inside == {p \in 1..(2 * rows + 1) : cand[p] >= 0 /\ cand[p] < rows}
    IN  [n \in 1..rows |->
            cand[CHOOSE p \in inside : Cardinality({q \in inside : q < p}) = n - 1]]

\* the cell (i, j) is among the first N cells of the rows laid out in the order
FilledFirst(order, cols, N, i, j) ==
    \E n \in 1..Len(order) : order[n] = i /\ (n - 1) * cols + j < N

\* out is kspace with exactly the first N cells of the order kept, the rest zeroed
KeepsFirst(out, kspace, order, N) ==
    /\ out.shape = kspace.shape
    /\ \A i \in 0..(Rows(kspace) - 1) : \A j \in 0..(Cols(kspace) - 1) :
           At(out, i, j) = IF FilledFirst(order, Cols(kspace), N, i, j)
                           THEN At(kspace, i, j) ELSE CZero

\* C11, as the code has it: on a k-space of two rows or more filling_centric takes
\* the rows in the order center, center-1, center+1, center-2, center+2, ...
\* (center = rows // 2): with N = floor(size * v / 100) the cells left as they were
\* are exactly the first N cells of the rows laid out in that order, every other
\* cell is zeroed and every surviving cell stays at its row and column.  On a
\* k-space of one row it raises and leaves the k-space as it was.
C11_CentricLowerFirst ==
    call.op = "filling_centric"
    => LET rows == Rows(call.kspace)
           N == (Size(call.kspace) * call.value) \div 100
       IN  IF rows = 1 THEN ~call.out.ok /\ call.out.kspace = call.kspace
           ELSE /\ call.out.ok
                /\ KeepsFirst(call.out.kspace, call.kspace, CentricOrder(rows, TRUE), N)

\* C11's case: 5 rows of 2 cells at 50 percent, N = 5: the center row 2 and row 1, the
\* next lower one, are whole, row 3 keeps its first cell, rows 0 and 4 are zeroed
C11_Witness ==
    /\ call.op = "filling_centric"
    /\ call.kspace.shape = <<5, 2>> /\ call.value = 50
    /\ call.out.ok
    /\ Zeroed(call.out.kspace) = {1, 2, 8, 9, 10}

\* C11 as stated: the order is center, center+1, center-1, center+2, center-2, ...
C11_CentricHigherFirst ==
    call.op = "filling_centric"
    => LET N == (Size(call.kspace) * call.value) \div 100
       IN  /\ call.out.ok
           /\ KeepsFirst(call.out.kspace, call.kspace,
                         CentricOrder(Rows(call.kspace), FALSE), N)

\* the recorded cells of a list of spikes or patches, by their place in the buffer
Recorded(a, list) ==
    {n \in 1..Size(a) : \E m \in 1..Len(list) :
        list[m][1] = RowOf(a, n) /\ list[m][2] = ColOf(a, n)}

\* the cells no cell comes after in numpy's order of complex numbers (kspace.max())
GreatestCells(a) ==
    {a.flat[n] : n \in {x \in 1..Size(a) : \A y \in 1..Size(a) : ~CLess(a.flat[x], a.flat[y])}}

\* the cells of greatest magnitude, of a k-space whose cells have whole real and
\* imaginary parts (4 * |z|^2 is then the first part of Norm2(z))
GreatestMagnitudes(a) ==
    {a.flat[n] : n \in {x \in 1..Size(a) :
        \A y \in 1..Size(a) : ~BLess(Norm2(a.flat[x])[1], Norm2(a.flat[y])[1])}}

\* w is the real number 2 * |z|
TwiceMagnitude(w, z) ==
    /\ w[2] = 0 /\ w[3] = 0 /\ w[4] = 0 /\ w[1] >= 0
    /\ Norm2(w) = Norm2(CScale(2, z))

\* C12, what the code does: apply_spikes sets every recorded (row, col) cell to twice
\* kspace.max(), the greatest cell of the k-space as it was before any spike was
\* written in numpy's order of complex numbers (by real part, then by imaginary
\* part), the same value for all spikes, and leaves every other cell unchanged; that
\* value is twice the maximum magnitude when a cell of greatest magnitude is real and
\* not negative.
C12_SpikesTwiceGreatest ==
    call.op = "apply_spikes"
    => /\ call.out.shape = call.kspace.shape
       /\ \E m \in GreatestCells(call.kspace) :
              /\ \A n \in 1..Size(call.kspace) :
                     call.out.flat[n] = IF n \in Recorded(call.kspace, call.spikes)
                                        THEN CScale(2, m) ELSE call.kspace.flat[n]
              /\ (\E z \in GreatestMagnitudes(call.kspace) : TwiceMagnitude(z, z))
                     => \A z \in GreatestMagnitudes(call.kspace) :
                            TwiceMagnitude(CScale(2, m), z)

\* C12's case: two spikes on a raw k-space whose greatest magnitude is that of -5:
\* both cells hold twice the greatest cell, 2 + i, and not 10
C12_Witness ==
    /\ call.op = "apply_spikes"
    /\ call.kspace = Signed(3, 2)
    /\ call.spikes = <<<<0, 0>>, <<1, 1>>>>
    /\ At(call.out, 0, 0) = <<4 * Den, 0, 0, 2 * Den>>
    /\ At(call.out, 1, 1) = <<4 * Den, 0, 0, 2 * Den>>
    /\ At(call.out, 2, 1) = At(call.kspace, 2, 1)

\* C12 as stated: every recorded cell is set to twice the maximum magnitude |k| over
\* the k-space as it was, every other cell is unchanged
C12_SpikesTwiceMagnitude ==
    call.op = "apply_spikes"
    => \A n \in 1..Size(call.kspace) :
           IF n \in Recorded(call.kspace, call.spikes)
           THEN \A z \in GreatestMagnitudes(call.kspace) :
                    TwiceMagnitude(call.out.flat[n], z)
           ELSE call.out.flat[n] = call.kspace.flat[n]

Dist(a, b) == IF a >= b THEN a - b ELSE b - a

\* the cell (i, j) lies in the square of half width size around (x, y)
InSquare(i, j, x, y, size) == Dist(i, x) <= size /\ Dist(j, y) <= size

\* the indices of an axis of length len the block around c takes: those within size
\* of c, or, the stop c + size + 1 being negative, all but the last -(c + size + 1)
BlockAxis(len, c, size, i) ==
    IF c + size + 1 >= 0 THEN Dist(i, c) <= size ELSE i < len + c + size + 1

\* C13, what the code does: for every patch (row, col, halfSize) with row >=
\* -halfSize - 1 and col >= -halfSize - 1, centers at or beyond the edges included,
\* apply_patches zeroes exactly the cells (i, j) inside the array with |i - row| <=
\* halfSize and |j - col| <= halfSize and leaves every other cell unchanged; a center
\* further out than that before the first row or column gives the slice a negative
\* stop, which counts from the end of the axis: every index of that axis but the
\* last -(center + halfSize + 1) is taken.
C13_PatchesClipped ==
    call.op = "apply_patches"
    => /\ call.out.shape = call.kspace.shape
       /\ \A i \in 0..(Rows(call.kspace) - 1) : \A j \in 0..(Cols(call.kspace) - 1) :
              At(call.out, i, j) =
                  IF \E n \in 1..Len(call.patches) :
                         LET q == call.patches[n]
                         IN  /\ BlockAxis(Rows(call.kspace), q[1], q[3], i)
                             /\ BlockAxis(Cols(call.kspace), q[2], q[3], j)
                  THEN CZero ELSE At(call.kspace, i, j)
       /\ (\A n \in 1..Len(call.patches) :
               LET q == call.patches[n]
               IN  q[1] >= -q[3] - 1 /\ q[2] >= -q[3] - 1)
              => \A i \in 0..(Rows(call.kspace) - 1) : \A j \in 0..(Cols(call.kspace) - 1) :
                     At(call.out, i, j) =
                         IF \E n \in 1..Len(call.patches) :
                                InSquare(i, j, call.patches[n][1], call.patches[n][2],
                                         call.patches[n][3])
                         THEN CZero ELSE At(call.kspace, i, j)

\* C13's case: a patch of half size 1 centered one row before the first row and one
\* column after the last of a 3 x 2 k-space zeroes the corner cell (0, 1) alone
C13_Witness ==
    /\ call.op = "apply_patches"
    /\ call.kspace = Labelled(3, 2)
    /\ call.patches = <<<<-1, 2, 1>>>>
    /\ Zeroed(call.out) = {2}

\* C13 as stated: for every patch, wherever its center, exactly the cells of the
\* array within halfSize of the center in both directions are zeroed
C13_PatchesSquare ==
    call.op = "apply_patches"
    => \A i \in 0..(Rows(call.kspace) - 1) : \A j \in 0..(Cols(call.kspace) - 1) :
           At(call.out, i, j) =
               IF \E n \in 1..Len(call.patches) :
                      InSquare(i, j, call.patches[n][1], call.patches[n][2],
                               call.patches[n][3])
               THEN CZero ELSE At(call.kspace, i, j)

\* the central cell of a k-space, by its place in the buffer
Center(a) == (Rows(a) \div 2) * Cols(a) + (Cols(a) \div 2) + 1

\* k is orig but for its central cell, which is orig's times (100 - pct) / 100
DcScaled(k, orig, pct) ==
    /\ k.shape = orig.shape
    /\ \A n \in 1..Size(orig) :
           k.flat[n] = IF n = Center(orig) THEN CMulFrac(orig.flat[n], 100 - pct, 100)
                       ELSE orig.flat[n]

\* a recompute with every filter off but the DC decrease, and nothing recorded
DcAlone(c) ==
    /\ c.op = "image_change"
    /\ c.u.noise_slider >= 30
    /\ OtherFiltersOff([c.u EXCEPT !.decrease_dc = 0])
    /\ Unmarked(c.s)

\* C14, what the code does: for every integer pct in 0..100 other than 1, a recompute
\* with the DC-decrease control at pct and every other filter disabled yields a
\* working k-space whose cell (rows//2, cols//2) equals the original value times
\* (100 - pct)/100 and whose every other cell equals the original; at pct = 1 the
\* step is skipped (it runs for int(pct) > 1) and every cell equals the original.
C14_DcDecreaseAboveOne ==
    DcAlone(call)
    => /\ call.out.ok
       /\ IF call.u.decrease_dc = 1
          THEN call.out.s.kspacedata = call.s.orig_kspacedata
          ELSE DcScaled(call.out.s.kspacedata, call.s.orig_kspacedata, call.u.decrease_dc)

\* C14's case: at 50 the central cell of the 4 x 2 image's k-space, which is not
\* zero, is halved
C14_Witness ==
    /\ DcAlone(call)
    /\ call.u.decrease_dc = 50
    /\ call.s = Loaded("image4x2")[0]
    /\ call.out.s.kspacedata.flat[6] = CReal(4 * Den)
    /\ call.s.orig_kspacedata.flat[6] = CReal(8 * Den)

\* C14 as stated: the central cell is scaled for every pct in 0..100
C14_DcDecreaseAll ==
    DcAlone(call)
    => DcScaled(call.out.s.kspacedata, call.s.orig_kspacedata, call.u.decrease_dc)

\* img, image_display_data, kspace_display_data and kspacedata all have the shape
CommonShape(s, shape) ==
    /\ s.img.shape = shape
    /\ s.image_display_data.shape = shape
    /\ s.kspace_display_data.shape = shape
    /\ s.kspacedata.shape = shape

ResizeCalls == {"resize_arrays", "undersample_compress"}

\* C15, what the code does: resize_arrays makes its five resize calls one after the
\* other (img, image_display_data, kspace_display_data, kspace_abs, kspacedata) and
\* undoes none: if a call raises, in resize_arrays or in undersample's compress path,
\* the arrays resized before it have the new shape and the others the shape they
\* had.  The four arrays keep their common shape only if the call that raises is the
\* first, img.resize; if a later one raises, img has the new shape and kspacedata the
\* old.  Once resize_arrays has completed, the copy of the kept rows completes too.
C15_ResizeStepwise ==
    call.op \in ResizeCalls
    => LET old == call.s.kspacedata.shape
           at(step) == IF call.raised = 0 \/ step < call.raised THEN call.size ELSE old
       IN  /\ CommonShape(call.s, old)
           /\ call.out.ok = (call.raised = 0)
           /\ call.out.s.img.shape = at(1)
           /\ call.out.s.image_display_data.shape = at(2)
           /\ call.out.s.kspace_display_data.shape = at(3)
           /\ call.out.s.kspace_abs.shape = at(4)
           /\ call.out.s.kspacedata.shape = at(5)
           /\ call.raised = 1 => call.out.s = call.s
           /\ call.raised > 1 /\ call.size # old
                  => ~CommonShape(call.out.s, old) /\ ~CommonShape(call.out.s, call.size)
           /\ call.op = "undersample_compress" /\ call.raised = 0
                  => call.out.s.kspacedata = KeptRows(call.s.kspacedata, call.factor)

\* C15's case: compressing the 4 x 2 slice by 2, kspace_display_data.resize raises:
\* img and image_display_data are 2 x 2, the other two arrays still 4 x 2
C15_Witness ==
    /\ call.op = "undersample_compress"
    /\ call.raised = 3
    /\ call.s = Loaded("image4x2")[0]
    /\ call.out.s.img.shape = <<2, 2>>
    /\ call.out.s.image_display_data.shape = <<2, 2>>
    /\ call.out.s.kspace_display_data.shape = <<4, 2>>
    /\ call.out.s.kspacedata.shape = <<4, 2>>

\* C15 as stated: whichever step fails, the four arrays still have the common shape
\* they had before the call
C15_ResizeAllOrNothing ==
    call.op \in ResizeCalls /\ ~call.out.ok
    => CommonShape(call.out.s, call.s.kspacedata.shape)

\* the rows i with (i - rows // 2) mod n = 0
RowsOnGrid(rows, n) == {i \in 0..(rows - 1) : (i - (rows \div 2)) % n = 0}

\* a recompute that undersamples by a factor above 1 with compress, nothing else
\* but the DC decrease being on
CompressThenDc(c) ==
    /\ c.op = "image_change"
    /\ c.u.undersample_kspace > 1 /\ c.u.compress
    /\ c.u.noise_slider >= 30
    /\ OtherFiltersOff([c.u EXCEPT !.undersample_kspace = 0, !.decrease_dc = 0])
    /\ Unmarked(c.s)

\* C17: for every row count and every factor n > 1, after undersample with compress
\* the row that was at index rows // 2 (the DC row) is at index newRows // 2 of the
\* compressed k-space: as many kept rows lie before it as is half their number,
\* rounded down.  So the k-space a recompute with compress and a DC decrease of pct
\* yields is the kept rows of the original, the cell (newRows // 2, cols // 2) being
\* the original's cell (rows // 2, cols // 2) times (100 - pct) / 100 when decrease_dc
\* runs (pct > 1), and no other cell scaled.
C17_DcRowStaysCentral ==
    CompressThenDc(call)
    => LET orig == call.s.orig_kspacedata
           o == call.out.s.kspacedata
           n == call.u.undersample_kspace
           pct == call.u.decrease_dc
           rows == Rows(orig)
           cols == Cols(orig)
           kept == RowsOnGrid(rows, n)
           before(i) == Cardinality({x \in kept : x < i})
       IN  /\ call.out.ok
           /\ o.shape = <<Cardinality(kept), cols>>
           /\ (rows \div 2) \in kept
           /\ before(rows \div 2) = Rows(o) \div 2
           /\ \A i \in kept : \A j \in 0..(cols - 1) :
                  At(o, before(i), j) =
                      IF i = rows \div 2 /\ j = cols \div 2 /\ pct > 1
                      THEN CMulFrac(At(orig, i, j), 100 - pct, 100)
                      ELSE At(orig, i, j)
           /\ \A r \in 1..(2 * MaxRows) : \A f \in 2..MaxRows :
                  LET k == {i \in 0..(r - 1) : KeptRow(r, f, i)}
                  IN  /\ k = RowsOnGrid(r, f)
                      /\ Cardinality({x \in k : x < r \div 2}) = Cardinality(k) \div 2

\* C17's case: 6 rows of 3 cells compressed by 2 to the rows 1, 3, 5 and a DC decrease
\* of 50: the central cell of the 3 x 3 k-space is half the original's cell (3, 1)
C17_Witness ==
    /\ CompressThenDc(call)
    /\ call.u.undersample_kspace = 2 /\ call.u.decrease_dc = 50
    /\ call.s.orig_kspacedata = Labelled(6, 3)
    /\ call.out.s.kspacedata.shape = <<3, 3>>
    /\ At(call.out.s.kspacedata, 1, 1) = CMulFrac(At(Labelled(6, 3), 3, 1), 50, 100)
    /\ At(call.out.s.kspacedata, 1, 1) # At(Labelled(6, 3), 3, 1)
    /\ At(call.out.s.kspacedata, 0, 0) = At(Labelled(6, 3), 1, 0)

\* the row and the column opposite i and j about the center
MirrorRow(a, i) == (2 * (Rows(a) \div 2) - i) % Rows(a)
MirrorCol(a, j) == (2 * (Cols(a) \div 2) - j) % Cols(a)

\* k[i, j] = conj(k[(2*(rows//2) - i) mod rows, (2*(cols//2) - j) mod cols]) for all cells
ConjugateSymmetric(a) ==
    \A i \in 0..(Rows(a) - 1) : \A j \in 0..(Cols(a) - 1) :
        At(a, i, j) = CConj(At(a, MirrorRow(a, i), MirrorCol(a, j)))

\* C18: for every shape and percentage in [0, 100], the rows partial_fourier without
\* zero fill overwrites (the trailing round((1 - p/100) * (rows/2 - 1)) rows) hold the
\* conjugates of the input's mirror rows, and no mirror row it reads is among the
\* rows it overwrites; so if the input is conjugate-symmetric about (rows // 2,
\* cols // 2), partial_fourier without zero fill leaves the k-space unchanged.
C18_SymmetricUnchanged ==
    call.op = "partial_fourier" /\ ~call.zf
    => LET k == call.kspace
           rows == Rows(k)
           skip == IF call.percentage = 100 THEN 0
                   ELSE Round((100 - call.percentage) * (rows - 2), 200)
           written == {i \in 0..(rows - 1) : i >= rows - skip}
           read == {MirrorRow(k, i) : i \in written}
       IN  /\ skip >= 0 /\ skip < rows
           /\ read \cap written = {}
           /\ \A i \in 0..(rows - 1) : \A j \in 0..(Cols(k) - 1) :
                  At(call.out, i, j) =
                      IF i \in written
                      THEN CConj(At(k, MirrorRow(k, i), MirrorCol(k, j)))
                      ELSE At(k, i, j)
           /\ ConjugateSymmetric(k) => call.out = k

\* C18's case: the last two rows of a conjugate-symmetric 6 x 3 k-space, whose cells
\* are not real, are filled from the rows 2 and 1 and come out as they were
C18_Witness ==
    /\ call.op = "partial_fourier" /\ ~call.zf
    /\ call.percentage = 0
    /\ call.kspace.shape = <<6, 3>>
    /\ ConjugateSymmetric(call.kspace)
    /\ Round(100 * (6 - 2), 200) = 2
    /\ \A i \in {4, 5} : \A j \in 0..2 : At(call.kspace, i, j) # CConj(At(call.kspace, i, j))
    /\ call.out = call.kspace

====
